---- MODULE Spec2Model ----
(***************************************************************************)
(* Model of generate_playlist.py: the URL normaliser, the HLS selection of *)
(* extract_hls_url and the main loop of generate_m3u8_playlist.            *)
(*                                                                         *)
(* A Python str is a sequence of one-character strings; an optional value  *)
(* (None or a value) is the empty set or a singleton set.                  *)
(***************************************************************************)
EXTENDS Integers, Sequences, FiniteSets, TLC

VARIABLES pc, inputExists, input, idx, line, parts, now, lines_out, total, added,
          seen, outputFile, exitCode, outcomes,
          n_token, n_result, e_info, e_result

vars == <<pc, inputExists, input, idx, line, parts, now, lines_out, total, added,
          seen, outputFile, exitCode, outcomes, n_token, n_result, e_info, e_result>>

(* ---------------- bounds ---------------- *)

MaxLines == 3

MaxTokLen == 3

MaxFormats == 2

(* ---------------- optional values ---------------- *)

None == {}

Some(x) == {x}

Get(o) == CHOOSE x \in o : TRUE

(* Python truthiness of an optional str. *)
Truthy(o) == IF o = None THEN FALSE ELSE Get(o) # <<>>

(* ---------------- str operations ---------------- *)

Whitespace == {" ", "\n", "\t"}

Min(S) == CHOOSE x \in S : \A y \in S : x <= y

Max(S) == CHOOSE x \in S : \A y \in S : x >= y

(* str.strip(): drops the leading and trailing whitespace. *)
Strip(s) ==
    LET keep == {i \in 1..Len(s) : s[i] \notin Whitespace} IN
    IF keep = {} THEN <<>> ELSE SubSeq(s, Min(keep), Max(keep))

StartsWith(s, p) == Len(s) >= Len(p) /\ SubSeq(s, 1, Len(p)) = p

Contains(s, sub) ==
    \E i \in 1..(Len(s) - Len(sub) + 1) : SubSeq(s, i, i + Len(sub) - 1) = sub

(* str.split(sep): the pieces between the occurrences of sep. *)
Split(s, sep) ==
    LET at == {i \in 1..Len(s) : s[i] = sep}
        n == Cardinality(at) + 1
        kth(k) == CHOOSE x \in at : Cardinality({y \in at : y < x}) = k - 1
    IN  [k \in 1..n |->
            SubSeq(s, IF k = 1 THEN 1 ELSE kth(k - 1) + 1,
                      IF k = n THEN Len(s) ELSE kth(k) - 1)]

RECURSIVE Join(_, _)
Join(ls, sep) ==
    IF ls = <<>> THEN <<>>
    ELSE IF Len(ls) = 1 THEN ls[1]
    ELSE ls[1] \o <<sep>> \o Join(Tail(ls), sep)

(* ---------------- literals ---------------- *)

YT == <<"h","t","t","p","s",":","/","/","w","w","w",".","y","o","u","t","u","b","e",".","c","o","m","/">>

LiveSuffix == <<"/","l","i","v","e">>

WatchPrefix == YT \o <<"w","a","t","c","h","?","v","=">>

HttpScheme == <<"h","t","t","p",":","/","/">>

HttpsScheme == <<"h","t","t","p","s",":","/","/">>

M3u8 == <<"m","3","u","8">>

DotM3u8 == <<".">> \o M3u8

ExtM3u == <<"#","E","X","T","M","3","U">>

GeneratedOn == <<"#"," ","G","e","n","e","r","a","t","e","d"," ","o","n"," ">>

ExtVersion == <<"#","E","X","T","-","X","-","V","E","R","S","I","O","N",":","3">>

ExtInf == <<"#","E","X","T","I","N","F",":","-","1",",">>

ProgramId == <<"#","E","X","T","-","X","-","P","R","O","G","R","A","M","-","I","D",":","1">>

OfflineSuffix == <<" ","(","o","f","f","l","i","n","e",")">>

(* ---------------- normalize_to_watch_url ---------------- *)

normalize_to_watch_url(token) ==
    LET t == Strip(token) IN
    IF t = <<>> THEN None
    ELSE IF StartsWith(t, <<"@">>) THEN Some(YT \o t \o LiveSuffix)
    ELSE IF StartsWith(t, HttpScheme) \/ StartsWith(t, HttpsScheme) THEN Some(t)
    ELSE Some(WatchPrefix \o t)

(* ---------------- extract_hls_url ---------------- *)

(* One entry of info["formats"]: each field is None or a value. *)
Format(proto, url, tbr) == [protocol |-> proto, url |-> url, tbr |-> tbr]

(* What ydl.extract_info does: raise, or return an info dict (or None). *)
Raised(kind) == [kind |-> kind, info |-> None]

Returned(info) == [kind |-> "ok", info |-> info]

IsHlsFormat(f) ==
    LET proto == IF f.protocol = None THEN <<>> ELSE Get(f.protocol)
        url_f == f.url
    IN  /\ url_f # None
        /\ Get(url_f) # <<>>
        /\ (Contains(proto, M3u8) \/ Contains(Get(url_f), DotM3u8))

TbrOf(f) == IF f.tbr = None THEN 0 ELSE Get(f.tbr)

RECURSIVE hls_candidates(_)
hls_candidates(formats) ==
    IF formats = <<>> THEN <<>>
    ELSE LET f == Head(formats) IN
         IF IsHlsFormat(f)
         THEN <<(<<TbrOf(f), Get(f.url)>>)>> \o hls_candidates(Tail(formats))
         ELSE hls_candidates(Tail(formats))

(* list.sort(key=lambda x: x[0]): stable, ascending on the key. *)
RECURSIVE InsertByKey(_, _)
InsertByKey(sorted, c) ==
    IF sorted = <<>> THEN <<c>>
    ELSE IF sorted[Len(sorted)][1] <= c[1] THEN Append(sorted, c)
    ELSE Append(InsertByKey(SubSeq(sorted, 1, Len(sorted) - 1), c), sorted[Len(sorted)])

RECURSIVE SortByKey(_)
SortByKey(cs) ==
    IF cs = <<>> THEN <<>>
    ELSE InsertByKey(SortByKey(SubSeq(cs, 1, Len(cs) - 1)), cs[Len(cs)])

(* Variant: the candidates are not sorted before the last is taken. *)
select_hls_Unsorted(info) ==
    LET formats == IF info.formats = None THEN <<>> ELSE Get(info.formats)
        cands == hls_candidates(formats)
        fallback == info.url
    IN  IF cands # <<>> THEN Some(cands[Len(cands)][2])
        ELSE IF fallback # None /\ Contains(Get(fallback), DotM3u8) THEN fallback
        ELSE None

select_hls(info) ==
    LET formats == IF info.formats = None THEN <<>> ELSE Get(info.formats)
        cands == hls_candidates(formats)
        fallback == info.url
    IN  IF cands # <<>> THEN Some(SortByKey(cands)[Len(cands)][2])
        ELSE IF fallback # None /\ Contains(Get(fallback), DotM3u8) THEN fallback
        ELSE None

extract_hls_url(r) ==
    IF r.kind = "DownloadError" THEN None
    ELSE IF r.kind = "Exception" \/ r.info = None THEN None
    ELSE select_hls(Get(r.info))

(* ---------------- inputs of a run ---------------- *)

BoundedSeq(S, n) == UNION {[1..k -> S] : k \in 0..n}

(* Raw lines of links.txt, as iterating the file yields them. *)
LinePool ==
    { <<"\n">>,
      <<"#","c","\n">>,
      <<"a","\n">>,
      <<"A"," ","|"," ","x","\n">>,
      <<"B","|","x","\n">>,
      <<"A"," ","|","\n">>,
      <<"A","|","@","h","\n">> }

Timestamps == { <<"0","1"," ","U","T","C">>, <<"0","2"," ","U","T","C">> }

OldContent == <<"o","l","d","\n">>

UrlU == <<"u",".","m","3","u","8">>

UrlV == <<"v",".","m","3","u","8">>

UrlW == <<"w">>

Https == <<"h","t","t","p","s">>

InfoHls == [formats |-> Some(<<Format(Some(M3u8), Some(UrlU), Some(1))>>), url |-> None]

InfoFallback == [formats |-> None, url |-> Some(UrlV)]

InfoOff == [formats |-> Some(<<Format(Some(Https), Some(UrlW), None)>>), url |-> None]

(* What the extractor may do for one entry. *)
ExtractorResults ==
    { Raised("DownloadError"), Raised("Exception"), Returned(None),
      Returned(Some(InfoHls)), Returned(Some(InfoFallback)), Returned(Some(InfoOff)) }

NoInfo == [formats |-> None, url |-> None]

(* ---------------- generate_m3u8_playlist ---------------- *)

Header(ts) == <<ExtM3u, GeneratedOn \o ts, ExtVersion>>

PartsOf(l) == LET ps == Split(l, "|") IN [i \in 1..Len(ps) |-> Strip(ps[i])]

FileText(ls) == Join(ls, "\n") \o <<"\n">>

Outcome(kind, name, token, hls) == [kind |-> kind, name |-> name, token |-> token, hls |-> hls]

InitPure ==
    /\ n_token = <<>>
    /\ n_result = None
    /\ e_info = NoInfo
    /\ e_result = None

Init ==
    /\ pc = "check"
    /\ inputExists \in BOOLEAN
    /\ input \in (IF inputExists THEN BoundedSeq(LinePool, MaxLines) ELSE {<<>>})
    /\ outputFile \in {None, Some(OldContent)}
    /\ idx = 1
    /\ line = <<>>
    /\ parts = <<>>
    /\ now = <<>>
    /\ lines_out = <<>>
    /\ total = 0
    /\ added = 0
    /\ seen = {}
    /\ exitCode = None
    /\ outcomes = <<>>
    /\ InitPure

purevars == <<n_token, n_result, e_info, e_result>>

(* Variant: the output file is opened for writing before the check. *)
InputMissing_TruncatesOutput ==
    /\ pc = "check"
    /\ ~inputExists
    /\ outputFile' = Some(<<>>)
    /\ exitCode' = Some(1)
    /\ pc' = "exit"
    /\ UNCHANGED <<inputExists, input, idx, line, parts, now, lines_out, total, added, seen,
                   outcomes, purevars>>

InputMissing ==
    /\ pc = "check"
    /\ ~inputExists
    /\ exitCode' = Some(1)
    /\ pc' = "exit"
    /\ UNCHANGED <<inputExists, input, idx, line, parts, now, lines_out, total, added, seen,
                   outputFile, outcomes, purevars>>

Start ==
    /\ pc = "check"
    /\ inputExists
    /\ \E ts \in Timestamps :
          /\ now' = ts
          /\ lines_out' = Header(ts)
    /\ total' = 0
    /\ added' = 0
    /\ seen' = {}
    /\ idx' = 1
    /\ pc' = "loop"
    /\ UNCHANGED <<inputExists, input, line, parts, outputFile, exitCode, outcomes, purevars>>

IsBlankOrComment(l) == l = <<>> \/ StartsWith(l, <<"#">>)

(* raw.strip() and [p.strip() for p in line.split("|")] of each raw line, *)
(* tabulated once; a blank or comment line is never split.              *)
LineOf == [raw \in LinePool |-> Strip(raw)]

SplitOf ==
    [raw \in LinePool |->
        IF IsBlankOrComment(Strip(raw)) THEN <<>> ELSE PartsOf(Strip(raw))]

(* for raw in fh: line = raw.strip(); a data line is split at once. *)
ReadLine ==
    /\ pc = "loop"
    /\ idx <= Len(input)
    /\ line' = LineOf[input[idx]]
    /\ parts' = SplitOf[input[idx]]
    /\ pc' = "line"
    /\ UNCHANGED <<inputExists, input, idx, now, lines_out, total, added, seen,
                   outputFile, exitCode, outcomes, purevars>>

NextLine(o) ==
    /\ idx' = idx + 1
    /\ outcomes' = Append(outcomes, o)
    /\ pc' = "loop"
    /\ UNCHANGED <<inputExists, input, line, parts, now, outputFile, exitCode, purevars>>

SkipBlankOrComment ==
    /\ pc = "line"
    /\ IsBlankOrComment(line)
    /\ NextLine(Outcome("comment", <<>>, <<>>, None))
    /\ UNCHANGED <<lines_out, total, added, seen>>

IsData == pc = "line" /\ ~IsBlankOrComment(line)

(* Variant: a malformed line ends the run. *)
SkipMalformed_Fatal ==
    /\ IsData
    /\ Len(parts) # 2
    /\ exitCode' = Some(1)
    /\ pc' = "exit"
    /\ UNCHANGED <<inputExists, input, idx, line, parts, now, lines_out, total, added, seen,
                   outputFile, outcomes, purevars>>

SkipMalformed ==
    /\ IsData
    /\ Len(parts) # 2
    /\ NextLine(Outcome("malformed", <<>>, <<>>, None))
    /\ UNCHANGED <<lines_out, total, added, seen>>

IsEntry == IsData /\ Len(parts) = 2

Name == parts[1]

Token == parts[2]

SkipDuplicate ==
    /\ IsEntry
    /\ Token \in seen
    /\ NextLine(Outcome("duplicate", Name, Token, None))
    /\ UNCHANGED <<lines_out, total, added, seen>>

SkipNotNormalized ==
    /\ IsEntry
    /\ Token \notin seen
    /\ seen' = seen \cup {Token}
    /\ total' = total + 1
    /\ ~Truthy(normalize_to_watch_url(Token))
    /\ NextLine(Outcome("unresolvable", Name, Token, None))
    /\ UNCHANGED <<lines_out, added>>

(* Variant: the token is not recorded in seen. *)
ProcessAdded_NoSeenAdd ==
    /\ IsEntry
    /\ Token \notin seen
    /\ seen' = seen
    /\ total' = total + 1
    /\ Truthy(normalize_to_watch_url(Token))
    /\ \E r \in ExtractorResults :
          LET hls == extract_hls_url(r) IN
          /\ Truthy(hls)
          /\ lines_out' = lines_out \o <<ExtInf \o Name, ProgramId, Get(hls)>>
          /\ added' = added + 1
          /\ NextLine(Outcome("Resolved", Name, Token, hls))

(* Variant: a new block is put right after the header. *)
ProcessAdded_Prepend ==
    /\ IsEntry
    /\ Token \notin seen
    /\ seen' = seen \cup {Token}
    /\ total' = total + 1
    /\ Truthy(normalize_to_watch_url(Token))
    /\ \E r \in ExtractorResults :
          LET hls == extract_hls_url(r) IN
          /\ Truthy(hls)
          /\ lines_out' = SubSeq(lines_out, 1, 3) \o <<ExtInf \o Name, ProgramId, Get(hls)>>
                          \o SubSeq(lines_out, 4, Len(lines_out))
          /\ added' = added + 1
          /\ NextLine(Outcome("Resolved", Name, Token, hls))

ProcessAdded ==
    /\ IsEntry
    /\ Token \notin seen
    /\ seen' = seen \cup {Token}
    /\ total' = total + 1
    /\ Truthy(normalize_to_watch_url(Token))
    /\ \E r \in ExtractorResults :
          LET hls == extract_hls_url(r) IN
          /\ Truthy(hls)
          /\ lines_out' = lines_out \o <<ExtInf \o Name, ProgramId, Get(hls)>>
          /\ added' = added + 1
          /\ NextLine(Outcome("Resolved", Name, Token, hls))

ProcessNoHls ==
    /\ IsEntry
    /\ Token \notin seen
    /\ seen' = seen \cup {Token}
    /\ total' = total + 1
    /\ Truthy(normalize_to_watch_url(Token))
    /\ \E r \in ExtractorResults :
          LET hls == extract_hls_url(r) IN
          /\ ~Truthy(hls)
          /\ lines_out' = Append(lines_out, ExtInf \o Name \o OfflineSuffix)
          /\ NextLine(Outcome(IF r.kind = "ok" /\ r.info # None THEN "Offline" ELSE "Failed",
                              Name, Token, None))
    /\ UNCHANGED added

EndOfInput ==
    /\ pc = "loop"
    /\ idx > Len(input)
    /\ pc' = "write"
    /\ UNCHANGED <<inputExists, input, idx, line, parts, now, lines_out, total, added, seen,
                   outputFile, exitCode, outcomes, purevars>>

(* Variant: nothing is written when no entry resolved. *)
WriteOutput_OnlyIfAdded ==
    /\ pc = "write"
    /\ outputFile' = IF added > 0 THEN Some(FileText(lines_out)) ELSE outputFile
    /\ exitCode' = Some(0)
    /\ pc' = "done"
    /\ UNCHANGED <<inputExists, input, idx, line, parts, now, lines_out, total, added, seen,
                   outcomes, purevars>>

WriteOutput ==
    /\ pc = "write"
    /\ outputFile' = Some(FileText(lines_out))
    /\ exitCode' = Some(0)
    /\ pc' = "done"
    /\ UNCHANGED <<inputExists, input, idx, line, parts, now, lines_out, total, added, seen,
                   outcomes, purevars>>

(* open(output_file, "w") raises OSError: the traceback ends the process. *)
WriteFails ==
    /\ pc = "write"
    /\ exitCode' = Some(1)
    /\ pc' = "exit"
    /\ UNCHANGED <<inputExists, input, idx, line, parts, now, lines_out, total, added, seen,
                   outputFile, outcomes, purevars>>

Next ==
    \/ InputMissing
    \/ Start
    \/ ReadLine
    \/ SkipBlankOrComment
    \/ SkipMalformed
    \/ SkipDuplicate
    \/ SkipNotNormalized
    \/ ProcessAdded
    \/ ProcessNoHls
    \/ EndOfInput
    \/ WriteOutput
    \/ WriteFails

Spec == Init /\ [][Next]_vars

(* The script is one sequential thread: a step that can be taken is taken. *)
FairSpec == Spec /\ WF_vars(Next)

(* ---------------- normalize_to_watch_url on its own ---------------- *)

TokenChars == {"a", " ", "@", ":"}

LongTokens ==
    { HttpScheme \o <<"a">>,
      HttpsScheme \o <<"a">>,
      <<" ">> \o HttpsScheme \o <<"a", " ">>,
      <<"f","t","p",":","/","/","a">>,
      <<"h","t","t","p",":","a">> }

mainIdle ==
    /\ inputExists = FALSE
    /\ input = <<>>
    /\ outputFile = None
    /\ idx = 1
    /\ line = <<>>
    /\ parts = <<>>
    /\ line = <<>>
    /\ parts = <<>>
    /\ now = <<>>
    /\ lines_out = <<>>
    /\ total = 0
    /\ added = 0
    /\ seen = {}
    /\ exitCode = None
    /\ outcomes = <<>>

InitNorm ==
    /\ pc = "norm_in"
    /\ n_token \in BoundedSeq(TokenChars, MaxTokLen) \cup LongTokens
    /\ n_result = None
    /\ e_info = NoInfo
    /\ e_result = None
    /\ mainIdle

Normalize ==
    /\ pc = "norm_in"
    /\ n_result' = normalize_to_watch_url(n_token)
    /\ pc' = "norm_out"
    /\ UNCHANGED <<inputExists, input, idx, line, parts, now, lines_out, total, added, seen,
                   outputFile, exitCode, outcomes, n_token, e_info, e_result>>

NextNorm == Normalize

SpecNorm == InitNorm /\ [][NextNorm]_vars

(* ---------------- extract_hls_url on its own ---------------- *)

FormatPool ==
    { Format(p, u, t) :
        p \in {None, Some(M3u8), Some(Https)},
        u \in {None, Some(<<>>), Some(UrlU), Some(UrlV), Some(UrlW)},
        t \in {None, Some(1), Some(2)} }

InfoPool ==
    [ formats : {None} \cup {Some(fs) : fs \in BoundedSeq(FormatPool, MaxFormats)},
      url : {None, Some(UrlV), Some(UrlW)} ]

InitExtract ==
    /\ pc = "ext_in"
    /\ e_info \in InfoPool
    /\ e_result = None
    /\ n_token = <<>>
    /\ n_result = None
    /\ mainIdle

Extract ==
    /\ pc = "ext_in"
    /\ e_result' = extract_hls_url(Returned(Some(e_info)))
    /\ pc' = "ext_out"
    /\ UNCHANGED <<inputExists, input, idx, line, parts, now, lines_out, total, added, seen,
                   outputFile, exitCode, outcomes, n_token, n_result, e_info>>

NextExtract == Extract

SpecExtract == InitExtract /\ [][NextExtract]_vars

(* ---------------- reading the run's results ---------------- *)

Written == pc = "done" /\ outputFile # None

(* The lines of the written file: its text ends with a newline. *)
FileLines ==
    LET ps == Split(Get(outputFile), "\n") IN SubSeq(ps, 1, Len(ps) - 1)

Body == SubSeq(FileLines, 4, Len(FileLines))

CountKind(kinds) == Cardinality({i \in 1..Len(outcomes) : outcomes[i].kind \in kinds})

IsComment(l) == StartsWith(l, <<"#">>)

(* The playable blocks of a list of lines, top to bottom: one per line that *)
(* is not a comment, with the name of the info line two lines above it.    *)
RECURSIVE BlocksFrom(_, _)
BlocksFrom(ls, k) ==
    IF k > Len(ls) THEN <<>>
    ELSE IF IsComment(ls[k]) THEN BlocksFrom(ls, k + 1)
    ELSE LET ok == k >= 3 /\ StartsWith(ls[k - 2], ExtInf) /\ ls[k - 1] = ProgramId
             nm == IF ok THEN SubSeq(ls[k - 2], Len(ExtInf) + 1, Len(ls[k - 2])) ELSE <<>>
         IN  <<[ok |-> ok, name |-> nm, url |-> ls[k]]>> \o BlocksFrom(ls, k + 1)

RECURSIVE ResolvedFrom(_)
ResolvedFrom(os) ==
    IF os = <<>> THEN <<>>
    ELSE IF Head(os).kind = "Resolved"
         THEN <<[ok |-> TRUE, name |-> Head(os).name, url |-> Get(Head(os).hls)]>>
              \o ResolvedFrom(Tail(os))
         ELSE ResolvedFrom(Tail(os))

Fetched == {"Resolved", "Offline", "Failed"}

(* ---------------- C1 ---------------- *)

HeaderOK ==
    /\ outputFile # None
    /\ LET fl == FileLines IN
       /\ Len(fl) >= 3
       /\ fl[1] = ExtM3u
       /\ \E ts \in Timestamps : fl[2] = GeneratedOn \o ts
       /\ fl[3] = ExtVersion

(* C1: with the input present, a run ends only past the write step (every  *)
(* input line consumed), and once the write has succeeded the output file  *)
(* exists and its first three lines are #EXTM3U, the "# Generated on <ts>" *)
(* comment and #EXT-X-VERSION:3, also when no entry resolved.              *)
C1_HeaderAlwaysWritten ==
    /\ (inputExists /\ pc \in {"done", "exit"}) => idx = Len(input) + 1
    /\ pc = "done" => HeaderOK

C1_Witness ==
    /\ pc = "done"
    /\ added = 0
    /\ CountKind({"Failed"}) > 0
    /\ CountKind({"malformed"}) > 0
    /\ HeaderOK
    /\ Len(FileLines) = 4

(* ---------------- C2 ---------------- *)

(* C2: of the well-formed lines carrying one token only the first is       *)
(* normalised and extracted: every later one is skipped as a duplicate, so *)
(* at most one extraction happens per distinct token.                      *)
C2_DuplicateNeverFetched ==
    /\ \A i, j \in 1..Len(outcomes) :
          (/\ i < j
           /\ outcomes[i].kind \notin {"comment", "malformed"}
           /\ outcomes[j].kind \notin {"comment", "malformed"}
           /\ outcomes[i].token = outcomes[j].token)
          => outcomes[j].kind = "duplicate"
    /\ \A i \in 1..Len(outcomes) :
          outcomes[i].kind \notin {"comment", "malformed"}
          => /\ Len(PartsOf(Strip(input[i]))) = 2
             /\ outcomes[i].token = PartsOf(Strip(input[i]))[2]

C2_Witness ==
    \E i, j \in 1..Len(outcomes) :
        /\ i < j
        /\ outcomes[i].kind = "Resolved"
        /\ outcomes[j].kind = "duplicate"
        /\ outcomes[i].token = outcomes[j].token
        /\ outcomes[i].name # outcomes[j].name
        /\ input[i] # input[j]

(* ---------------- C3 ---------------- *)

(* C3: the playable blocks of the written file, top to bottom, are exactly *)
(* the Resolved entries in input order, each with its own name and URL,    *)
(* and their number is the added counter.                                  *)
C3_BlocksAreResolvedInOrder ==
    Written =>
        LET fl == FileLines
            blocks == BlocksFrom(fl, 4)
        IN  /\ blocks = ResolvedFrom(outcomes)
            /\ Len(blocks) = added

C3_Witness ==
    /\ Written
    /\ Len(ResolvedFrom(outcomes)) = 2
    /\ ResolvedFrom(outcomes)[1].url # ResolvedFrom(outcomes)[2].url
    /\ Len(outcomes) = 3
    /\ outcomes[2].kind = "unresolvable"

(* ---------------- C4 ---------------- *)

(* C4: Skipped and Failed outcomes add no line to the file body: the body  *)
(* holds at most three lines per Resolved entry and one per Offline entry, *)
(* so a run in which every fetch fails writes the 3 header lines only.     *)
C4_FailedAddsNothing ==
    Written => Len(Body) <= 3 * CountKind({"Resolved"}) + CountKind({"Offline"})

(* ---------------- C5 ---------------- *)

(* C5: in the written file every #EXTINF line is immediately followed by   *)
(* the #EXT-X-PROGRAM-ID:1 line and then by a manifest-URL line.           *)
C5_CompleteBlocks ==
    Written =>
        LET fl == FileLines IN
        \A k \in 4..Len(fl) :
            StartsWith(fl[k], ExtInf)
            => /\ k + 2 <= Len(fl)
               /\ fl[k + 1] = ProgramId
               /\ ~IsComment(fl[k + 2])

(* ---------------- C6 ---------------- *)

(* C6: at the end of the run added is the number of Resolved entries and   *)
(* total the number of entries that were not skipped.                      *)
C6_TotalCountsNonSkipped ==
    pc = "done" =>
        /\ added = CountKind({"Resolved"})
        /\ total = CountKind(Fetched)

(* ---------------- C7 ---------------- *)

(* The token of input line i when that line is a two-field data line. *)
EntryToken(i) ==
    LET l == Strip(input[i])
        ps == Split(l, "|")
    IN  IF l # <<>> /\ ~StartsWith(l, <<"#">>) /\ Len(ps) = 2
        THEN Some(Strip(ps[2]))
        ELSE None

FirstOccurrence(i) ==
    /\ EntryToken(i) # None
    /\ \A j \in 1..(i - 1) : EntryToken(j) # EntryToken(i)

AllExamined ==
    (inputExists /\ pc \in {"write", "done", "exit"}) =>
        /\ Len(outcomes) = Len(input)
        /\ \A i \in 1..Len(input) :
              (FirstOccurrence(i) /\ Truthy(EntryToken(i)))
              => outcomes[i].kind \in Fetched

Terminated == pc \in {"done", "exit"}

(* C7: once the input is open no per-entry condition ends the run: the run *)
(* ends only after every input line was examined and every first           *)
(* occurrence of a non-empty token was passed to extraction, and it does   *)
(* end, at the write of the output file.                                   *)
C7_RunContinues == []AllExamined /\ (inputExists => <>Terminated)

C7_Witness ==
    /\ pc = "done"
    /\ \E i, j, k \in 1..Len(outcomes) :
          /\ i < j /\ j < k
          /\ outcomes[i].kind \in {"malformed", "unresolvable"}
          /\ outcomes[j].kind = "Failed"
          /\ outcomes[k].kind = "Resolved"

(* ---------------- C8 ---------------- *)

(* C8: with the input file absent the only step is the exit with a         *)
(* non-zero status: nothing is extracted and the output file keeps what it *)
(* had (absent stays absent, present keeps its content).                   *)
C8_MissingInputTouchesNothing ==
    [][(~inputExists) =>
          /\ pc' = "exit"
          /\ exitCode' # None
          /\ exitCode' # Some(0)
          /\ outputFile' = outputFile
          /\ outcomes' = <<>>
          /\ lines_out' = lines_out]_vars

C8_Witness ==
    /\ ~inputExists
    /\ pc = "exit"
    /\ exitCode = Some(1)
    /\ outputFile = Some(OldContent)

(* ---------------- C9 ---------------- *)

SchemeChars == {"a", "f", "h", "p", "s", "t"}

(* t begins with a URI scheme: letters followed by a colon. *)
HasUriScheme(t) ==
    \E i \in 2..Len(t) : t[i] = ":" /\ \A k \in 1..(i - 1) : t[k] \in SchemeChars

(* C9: with t the token stripped of whitespace, an empty t gives None, a  *)
(* t starting with @ the channel live page, a t beginning with any URI    *)
(* scheme is passed through, and any other t gives the watch page of t.   *)
C9_AnySchemePassesThrough ==
    pc = "norm_out" =>
        LET t == Strip(n_token) IN
        n_result = IF t = <<>> THEN None
                   ELSE IF StartsWith(t, <<"@">>) THEN Some(YT \o t \o LiveSuffix)
                   ELSE IF HasUriScheme(t) THEN Some(t)
                   ELSE Some(WatchPrefix \o t)

(* ---------------- C10 ---------------- *)

FormatsOf(info) == IF info.formats = None THEN <<>> ELSE Get(info.formats)

(* A format with a non-empty url whose protocol has m3u8 or url has .m3u8. *)
HlsIndex(fs, i) ==
    IF fs[i].url = None THEN FALSE
    ELSE IF Get(fs[i].url) = <<>> THEN FALSE
    ELSE IF Contains(Get(fs[i].url), DotM3u8) THEN TRUE
    ELSE IF fs[i].protocol = None THEN FALSE
    ELSE Contains(Get(fs[i].protocol), M3u8)

Bitrate(f) == IF f.tbr = None THEN 0 ELSE Get(f.tbr)

(* C10: from an extracted info record extract_hls_url returns the url of   *)
(* an HLS format of greatest bitrate when there is an HLS format, else the *)
(* top-level url when that contains .m3u8, else None.                      *)
C10_BestHlsSelected ==
    pc = "ext_out" =>
        LET fs == FormatsOf(e_info)
            H == {i \in 1..Len(fs) : HlsIndex(fs, i)}
        IN  IF H # {}
            THEN \E i \in H :
                    /\ e_result = fs[i].url
                    /\ \A j \in H : Bitrate(fs[i]) >= Bitrate(fs[j])
            ELSE IF (IF e_info.url = None THEN FALSE ELSE Contains(Get(e_info.url), DotM3u8))
                 THEN e_result = e_info.url
                 ELSE e_result = None

C10_Witness ==
    /\ pc = "ext_out"
    /\ e_info.formats = Some(<<Format(Some(M3u8), Some(UrlW), Some(2)),
                               Format(None, Some(UrlU), Some(1))>>)
    /\ e_info.url = Some(UrlV)
    /\ e_result = Some(UrlW)

====
